---- MODULE Spec2Model ----
(***************************************************************************)
(* Model of the End-of-Turn segmentation session RealTimeVADStreamer       *)
(* (src/python-services/services/audio_processing.py).                     *)
(*                                                                         *)
(* A byte of audio is a record [n, v]: n is the position of the byte in    *)
(* the whole stream the session has received (its identity), v is what the *)
(* voice-activity classifier hears in it.  The session is the record       *)
(* vad_streamer, with the fields of the Python object.  Every public       *)
(* method is one action; the history variables (op, ret, reported, utt,    *)
(* log, ...) record what the calls were given and what they returned.      *)
(*                                                                         *)
(* Spec drives one session directly.  AdapterSpec is the WebSocket handler *)
(* stream_audio (src/python-services/main.py) with its client: the client  *)
(* puts chunks in flight, the handler receives them in turn, calls         *)
(* process_chunk, transcribes and answers.                                 *)
(***************************************************************************)
EXTENDS Integers, Sequences, FiniteSets, TLC

(* ------------------------------ bounds --------------------------------- *)
\* bytes per frame (frame_size * 2 in the source, 960 there)
FrameBytes == 2
\* eot_frames_threshold of the modelled session (50 in the source)
EotThreshold == 2
\* number of frames of audio a run feeds to the session
MaxFrames == 5
\* total number of bytes a run feeds to the session
MaxBytes == MaxFrames * FrameBytes
\* longest chunk handed to one process_chunk call: two frames
MaxChunk == 2 * FrameBytes
\* most classifier invocations between two resets
MaxLog == MaxFrames + 1

\* messages a client sends over one connection
MaxSends == 3
\* messages in flight from the client to the handler
MaxInbox == 2
\* longest frame duration, in ms, a session is constructed with
MaxDuration == 30

(* ------------------------------ values --------------------------------- *)
\* what the classifier can hear in one byte
Values == {"speech", "silence", "bad"}

\* Optional[bytes]
None == [is_none |-> TRUE, data |-> <<>>]
Some(b) == [is_none |-> FALSE, data |-> b]

\* the truthiness test Python applies to an Optional[bytes]
Truthy(r) == (~r.is_none) /\ Len(r.data) > 0

\* the bytes of a chunk of values vs, numbered after the first `base` bytes
Stamp(vs, base) == [i \in 1..Len(vs) |-> [n |-> base + i, v |-> vs[i]]]

\* The audio source produces whole frames of speech, of silence or of audio
\* the classifier fails on (at most one such frame in a run); the transport
\* cuts that stream into chunks at any byte.  SourceFrame(p) is the source frame (from 0) of stream byte p (from 1).
SourceFrame(p) == (p - 1) \div FrameBytes

\* the number of source frames that begin within bytes base+1 .. base+len
Begun(base, len) ==
    IF len = 0 THEN 0
    ELSE SourceFrame(base + len) - (IF base = 0 THEN -1 ELSE SourceFrame(base))

\* the values of the `len` bytes that follow a stream of `base` bytes whose
\* last byte was `last`, when the frames that begin in them sound like fs
ChunkValues(base, len, last, fs) ==
    [i \in 1..len |->
        LET f == SourceFrame(base + i) - (IF base = 0 THEN -1 ELSE SourceFrame(base))
        IN IF f = 0 THEN last ELSE fs[f]]

\* the set of byte identities of a byte sequence
Ids(b) == {b[i].n : i \in 1..Len(b)}

\* b[k:] of Python, k counted from 0
DropFirst(b, k) == SubSeq(b, k + 1, Len(b))

(* ----------------------------- the session ----------------------------- *)
\* webrtcvad's decision on one frame: deterministic in the frame's content;
\* "raise" is the exception the try block of process_chunk catches
is_speech(frame_bytes) ==
    IF \E i \in 1..Len(frame_bytes) : frame_bytes[i].v = "bad" THEN "raise"
    ELSE IF \E i \in 1..Len(frame_bytes) : frame_bytes[i].v = "speech" THEN "speech"
    ELSE "silence"

\* RealTimeVADStreamer.__init__
NewStreamer ==
    [audio_buffer |-> <<>>,
     silence_frames |-> 0,
     speech_frames |-> 0,
     in_speech |-> FALSE,
     eot_frames_threshold |-> EotThreshold]

\* a reset that forgets to clear the speech-run counter
reset_state_keeps_speech(s) ==
    [s EXCEPT !.audio_buffer = <<>>,
              !.silence_frames = 0,
              !.in_speech = FALSE]

\* RealTimeVADStreamer._reset_state
reset_state(s) ==
    [s EXCEPT !.audio_buffer = <<>>,
              !.silence_frames = 0,
              !.speech_frames = 0,
              !.in_speech = FALSE]

\* a snapshot that reports the threshold in place of the silence run
get_state_wrong_field(s) ==
    [buffer_size |-> Len(s.audio_buffer),
     silence_frames |-> s.eot_frames_threshold,
     speech_frames |-> s.speech_frames,
     in_speech |-> s.in_speech,
     eot_threshold |-> s.eot_frames_threshold]

\* RealTimeVADStreamer.get_state
get_state(s) ==
    [buffer_size |-> Len(s.audio_buffer),
     silence_frames |-> s.silence_frames,
     speech_frames |-> s.speech_frames,
     in_speech |-> s.in_speech,
     eot_threshold |-> s.eot_frames_threshold]

\* counter updates in which a silence frame ends the utterance's speech
count_frame_clears(s, r) ==
    IF r = "speech"
    THEN [s EXCEPT !.speech_frames = @ + 1,
                   !.silence_frames = 0,
                   !.in_speech = TRUE]
    ELSE [s EXCEPT !.silence_frames = @ + 1,
                   !.in_speech = FALSE]

\* the counter updates of one classified frame (the if/else of the loop body)
count_frame(s, r) ==
    IF r = "speech"
    THEN [s EXCEPT !.speech_frames = @ + 1,
                   !.silence_frames = 0,
                   !.in_speech = TRUE]
    ELSE [s EXCEPT !.silence_frames = @ + 1]

\* an End-of-Turn test that is off by one (> for >=)
eot_detected_strict(s) == s.in_speech /\ s.silence_frames > s.eot_frames_threshold

\* an End-of-Turn test that forgets to ask for speech
eot_detected_no_speech(s) == s.silence_frames >= s.eot_frames_threshold

\* the End-of-Turn test of the loop body
eot_detected(s) == s.in_speech /\ s.silence_frames >= s.eot_frames_threshold

\* the slice audio_buffer[start_idx:end_idx] of frame i (from 0)
frame_at(buf, i) ==
    SubSeq(buf, i * FrameBytes + 1,
           IF (i + 1) * FrameBytes < Len(buf) THEN (i + 1) * FrameBytes ELSE Len(buf))

\* the statements after the loop: drop the processed frames, return None
trim_processed(s, complete_frames) ==
    [s EXCEPT !.audio_buffer = DropFirst(@, complete_frames * FrameBytes)]

\* one classifier invocation as the history keeps it: the frame, the
\* classifier's outcome res, the turn state after the frame's counter update
\* (unchanged when the classifier raised) and the End-of-Turn test on it
entry(frame_bytes, r, s) ==
    [frame |-> frame_bytes, res |-> r,
     eot |-> (r # "raise" /\ eot_detected(s)),
     in_speech |-> s.in_speech,
     silence_frames |-> s.silence_frames,
     speech_frames |-> s.speech_frames]

\* a loop that resets the session before it copies the buffer, and so hands
\* back an empty payload at the End-of-Turn
RECURSIVE frame_loop_copies_after_reset(_, _, _, _)
frame_loop_copies_after_reset(s, i, complete_frames, calls) ==
    IF i >= complete_frames
    THEN [s |-> trim_processed(s, complete_frames), ret |-> None,
          calls |-> calls, raised |-> FALSE]
    ELSE LET frame_bytes == frame_at(s.audio_buffer, i)
             r == is_speech(frame_bytes)
         IN IF r = "raise"
            THEN [s |-> s, ret |-> None,
                  calls |-> Append(calls, entry(frame_bytes, r, s)),
                  raised |-> TRUE]
            ELSE LET s1 == count_frame(s, r)
                     c1 == Append(calls, entry(frame_bytes, r, s1))
                 IN IF eot_detected(s1)
                    THEN [s |-> reset_state(s1), ret |-> Some(reset_state(s1).audio_buffer),
                          calls |-> c1, raised |-> FALSE]
                    ELSE frame_loop_copies_after_reset(s1, i + 1, complete_frames, c1)

\* a loop that does not return at the End-of-Turn but classifies the frames
\* left in the chunk before it hands back the first payload
RECURSIVE frame_loop_drains(_, _, _, _)
frame_loop_drains(s, i, complete_frames, calls) ==
    IF i >= complete_frames
    THEN [s |-> trim_processed(s, complete_frames), ret |-> None,
          calls |-> calls, raised |-> FALSE]
    ELSE LET frame_bytes == frame_at(s.audio_buffer, i)
             r == is_speech(frame_bytes)
         IN IF r = "raise"
            THEN [s |-> s, ret |-> None,
                  calls |-> Append(calls, entry(frame_bytes, r, s)),
                  raised |-> TRUE]
            ELSE LET s1 == count_frame(s, r)
                     c1 == Append(calls, entry(frame_bytes, r, s1))
                 IN IF eot_detected(s1)
                    THEN LET more == frame_loop_drains(
                                        [s1 EXCEPT !.silence_frames = 0, !.in_speech = FALSE],
                                        i + 1, complete_frames, c1)
                         IN [s |-> reset_state(more.s), ret |-> Some(s1.audio_buffer),
                             calls |-> more.calls, raised |-> more.raised]
                    ELSE frame_loop_drains(s1, i + 1, complete_frames, c1)

\* the for loop of process_chunk from frame i on, and what follows it.
\* The result is the session after the call, the value returned and the
\* classifier invocations made: [frame, res, eot] with res the classifier's
\* outcome and eot the End-of-Turn test after that frame's counter update.
RECURSIVE frame_loop(_, _, _, _)
frame_loop(s, i, complete_frames, calls) ==
    IF i >= complete_frames
    THEN [s |-> trim_processed(s, complete_frames), ret |-> None,
          calls |-> calls, raised |-> FALSE]
    ELSE LET frame_bytes == frame_at(s.audio_buffer, i) IN
         IF Len(frame_bytes) # FrameBytes
         THEN frame_loop(s, i + 1, complete_frames, calls)
         ELSE LET r == is_speech(frame_bytes) IN
              IF r = "raise"
              THEN [s |-> s, ret |-> None,
                    calls |-> Append(calls, entry(frame_bytes, r, s)),
                    raised |-> TRUE]
              ELSE LET s1 == count_frame(s, r)
                       c1 == Append(calls, entry(frame_bytes, r, s1))
                   IN IF eot_detected(s1)
                      THEN [s |-> reset_state(s1), ret |-> Some(s1.audio_buffer),
                            calls |-> c1, raised |-> FALSE]
                      ELSE frame_loop(s1, i + 1, complete_frames, c1)

\* a process_chunk that takes an empty chunk for the end of the stream and
\* resets the session
process_chunk_ends_on_empty(s, chunk_data) ==
    IF Len(chunk_data) = 0
    THEN [s |-> reset_state(s), ret |-> None, calls |-> <<>>, raised |-> FALSE]
    ELSE LET s0 == [s EXCEPT !.audio_buffer = @ \o chunk_data]
             complete_frames == Len(s0.audio_buffer) \div FrameBytes
         IN frame_loop(s0, 0, complete_frames, <<>>)

\* RealTimeVADStreamer.process_chunk
process_chunk(s, chunk_data) ==
    LET s0 == [s EXCEPT !.audio_buffer = @ \o chunk_data]
        complete_frames == Len(s0.audio_buffer) \div FrameBytes
    IN frame_loop(s0, 0, complete_frames, <<>>)

\* a force_eot that returns the buffer without resetting the session
force_eot_no_reset(s) ==
    IF s.in_speech /\ Len(s.audio_buffer) > 0
    THEN [s |-> s, ret |-> Some(s.audio_buffer)]
    ELSE [s |-> reset_state(s), ret |-> None]

\* RealTimeVADStreamer.force_eot
force_eot(s) ==
    IF s.in_speech /\ Len(s.audio_buffer) > 0
    THEN [s |-> reset_state(s), ret |-> Some(s.audio_buffer)]
    ELSE [s |-> reset_state(s), ret |-> None]


(* ------------------------------ the adapter ---------------------------- *)
\* Optional[str], the result of transcribe_utterance
NoTranscript == [is_none |-> TRUE, text |-> ""]
Transcript(t) == [is_none |-> FALSE, text |-> t]

\* what the speech-to-text engine makes of a buffer
Hearings == {"words", "nothing", "exception"}

\* a transcription that hands back the empty text of silent audio
transcribe_utterance_returns_empty(audio_bytes, hearing) ==
    IF Len(audio_bytes) = 0 THEN NoTranscript
    ELSE IF hearing = "words" THEN Transcript("words")
    ELSE IF hearing = "nothing" THEN Transcript("")
    ELSE NoTranscript

\* asr_service.transcribe_utterance: the joined text when it is not empty,
\* None for empty audio, for an empty transcript and for any exception
transcribe_utterance(audio_bytes, hearing) ==
    IF Len(audio_bytes) = 0 THEN NoTranscript
    ELSE IF hearing = "words" THEN Transcript("words")
    ELSE NoTranscript

\* the truthiness test Python applies to an Optional[str]
TruthyText(t) == (~t.is_none) /\ t.text # ""

\* the input of the downstream workflow, built in the branch `if transcript:`
\* (the timestamp, which nothing reads, is left out); <<>> when none is built
step_functions_input(transcript, complete_audio) ==
    IF TruthyText(transcript)
    THEN <<[utterance |-> transcript.text,
            session_id |-> "mock_session_123",
            audio_metadata |-> [duration_ms |-> Len(complete_audio.data) \div 32,
                                size_bytes |-> Len(complete_audio.data)]]>>
    ELSE <<>>

\* an eot message that reports the workflow as triggered in either branch
eot_message_always_triggered(transcript, complete_audio, s) ==
    [type |-> "eot",
     transcript |-> IF TruthyText(transcript) THEN transcript ELSE NoTranscript,
     audio_size |-> Len(complete_audio.data),
     vad_state |-> get_state(s),
     step_functions_triggered |-> TRUE]

\* the message stream_audio builds after an End-of-Turn: the branch
\* `if transcript:` carries the transcript, the other one null
eot_message(transcript, complete_audio, s) ==
    [type |-> "eot",
     transcript |-> IF TruthyText(transcript) THEN transcript ELSE NoTranscript,
     audio_size |-> Len(complete_audio.data),
     vad_state |-> get_state(s),
     step_functions_triggered |-> TruthyText(transcript)]

\* the periodic status update
status_message(s) == [type |-> "status", vad_state |-> get_state(s)]

\* a handler that answers empty chunks with a status message too
after_chunk_always_status(complete_audio, data) ==
    IF Truthy(complete_audio) THEN "transcribe" ELSE "send_status"

\* where stream_audio goes after process_chunk: the if / elif of the loop
after_chunk(complete_audio, data) ==
    IF Truthy(complete_audio) THEN "transcribe"
    ELSE IF Len(data) > 0 THEN "send_status"
    ELSE "recv"

\* a handler that sends nothing when the transcription failed
eot_sends_only_transcribed(transcript, complete_audio, s) ==
    IF transcript.is_none THEN <<>>
    ELSE <<eot_message(transcript, complete_audio, s)>>

\* what stream_audio sends once the transcription has returned
eot_sends(transcript, complete_audio, s) ==
    <<eot_message(transcript, complete_audio, s)>>

\* a receive that takes the newest message in flight
receive_newest(queue) == queue[Len(queue)]

\* websocket.receive_bytes: the oldest message in flight
receive_bytes(queue) == Head(queue)

(* --------------------------- configuration ----------------------------- *)
\* the sample rates, in Hz, a session is constructed with
SampleRates == {8000, 16000, 32000, 48000}

\* eot_silence_threshold, 1.5 s, in tenths of a second
eot_silence_tenths == 15

\* int(sample_rate * frame_duration / 1000): samples per frame
frame_size(sample_rate, frame_duration) == (sample_rate * frame_duration) \div 1000

\* a threshold derived from one second of silence
eot_frames_threshold_one_second(frame_duration) == 1000 \div frame_duration

\* int(eot_silence_threshold * 1000 / frame_duration): the quotient, truncated
eot_frames_threshold(frame_duration) ==
    (eot_silence_tenths * 1000) \div (10 * frame_duration)

\* the attributes __init__ derives from its arguments
construct(sample_rate, frame_duration) ==
    [sample_rate |-> sample_rate,
     frame_duration |-> frame_duration,
     frame_size |-> frame_size(sample_rate, frame_duration),
     eot_frames_threshold |-> eot_frames_threshold(frame_duration)]

(* ---------------------------- two sessions ----------------------------- *)
\* the sessions of two concurrent connections
Sessions == {1, 2}

\* sessions whose audio_buffer is one object shared by the class
assign_shared(sessions, k, s) ==
    [j \in DOMAIN sessions |->
        IF j = k THEN s ELSE [sessions[j] EXCEPT !.audio_buffer = s.audio_buffer]]

\* __init__ binds audio_buffer, the counters and in_speech to self, so a
\* method that leaves session k as s changes session k only
assign(sessions, k, s) == [sessions EXCEPT ![k] = s]

(* ------------------------------- state --------------------------------- *)
VARIABLES
    vad_streamer,   \* the session object
    op,             \* the method called last, get_state apart
    ret,            \* the Optional[bytes] the last process_chunk/force_eot returned
    reported,       \* the dicts get_state returned since the last other call
    nbytes,         \* bytes received so far, over the whole run
    lastv,          \* what the classifier hears in the byte received last
    fresh,          \* the last process_chunk/force_eot call reset the session
    utt,            \* every byte received since the reset before the last call
    log,            \* classifier invocations since the reset before the last call
    callStart,      \* Len(log) when the last process_chunk call began
    raiseAt,        \* Len(utt) after the first call since the reset that raised, else -1
    payloads,       \* every payload returned, with nbytes at the reset before it
    badSeen,        \* the source has produced its one frame the classifier fails on
    forced,         \* force_eot has been called in this run
    \* the connection of AdapterSpec
    pc,             \* where stream_audio is: recv, transcribe, send_eot, send_status, done
    inbox,          \* the client's messages in flight, oldest first
    client,         \* "open" until the client has closed or broken the connection
    nsent,          \* messages the client has sent
    data,           \* the chunk received last
    transcript,     \* the result of the transcription made last
    sent,           \* the messages the handler sent since it received that chunk
    processed,      \* the chunks passed to process_chunk, by their place in the client's order
    detected,       \* End-of-Turn payloads process_chunk has returned to the handler
    eots,           \* eot messages the handler has sent
    classified,     \* classifier invocations of the handler's last process_chunk call
    failed,         \* the classifier has raised in a call on the handler's present session
    attempts,       \* calls of transcribe_utterance the handler has made
    built,          \* the workflow inputs the handler built since it received that chunk
    \* the two sessions of PairSpec
    pair,           \* the sessions of two connections, as the process holds them
    pret,           \* what the last call on each of them returned
    solo,           \* each session as it is when driven alone by the same calls
    sret,           \* what its last call returned then
    fed,            \* the audio each session has been given: bytes so far, last value
    repeat,         \* "no", unless the last call on the session was a force_eot right
                    \* after another force_eot: then what that one returned, "payload" or "none"
    \* the construction of ConfigSpec
    config          \* what __init__ derived from the arguments it was given last

vars == <<vad_streamer, op, ret, reported, nbytes, lastv, fresh, utt, log, callStart,
          raiseAt, payloads, badSeen, forced>>

avars == <<pc, inbox, client, nsent, data, transcript, sent, processed, detected, eots,
           classified, failed, attempts, built>>

pvars == <<pair, pret, solo, sret, fed, repeat>>

Init ==
    /\ vad_streamer = NewStreamer
    /\ op = "init"
    /\ ret = None
    /\ reported = <<>>
    /\ nbytes = 0
    /\ lastv = "silence"
    /\ fresh = TRUE
    /\ utt = <<>>
    /\ log = <<>>
    /\ callStart = 0
    /\ raiseAt = -1
    /\ payloads = <<>>
    /\ badSeen = FALSE
    /\ forced = FALSE
    /\ pc = "recv"
    /\ inbox = <<>>
    /\ client = "open"
    /\ nsent = 0
    /\ data = <<>>
    /\ transcript = NoTranscript
    /\ sent = <<>>
    /\ processed = <<>>
    /\ detected = 0
    /\ eots = 0
    /\ classified = 0
    /\ failed = FALSE
    /\ attempts = 0
    /\ built = <<>>
    /\ pair = [k \in Sessions |-> NewStreamer]
    /\ pret = [k \in Sessions |-> [op |-> "init", val |-> None]]
    /\ solo = [k \in Sessions |-> NewStreamer]
    /\ sret = [k \in Sessions |-> [op |-> "init", val |-> None]]
    /\ fed = [k \in Sessions |-> [n |-> 0, last |-> "silence"]]
    /\ repeat = [k \in Sessions |-> "no"]
    /\ config = construct(16000, 30)

\* the stream position of the last reset
LastReset == IF fresh THEN nbytes ELSE nbytes - Len(utt)

Record(r, since) ==
    IF r.is_none THEN payloads
    ELSE Append(payloads, [data |-> r.data, since |-> since])

ProcessChunk ==
    \E len \in 0..MaxChunk : \E fs \in [1..Begun(nbytes, len) -> Values] :
        LET vs == ChunkValues(nbytes, len, lastv, fs)
            nbad == Cardinality({i \in DOMAIN fs : fs[i] = "bad"})
            chunk_data == Stamp(vs, nbytes)
            utt0 == IF fresh THEN <<>> ELSE utt
            log0 == IF fresh THEN <<>> ELSE log
            raise0 == IF fresh THEN -1 ELSE raiseAt
        IN /\ nbytes + Len(vs) <= MaxBytes
           /\ nbad <= (IF badSeen THEN 0 ELSE 1)
           /\ \E out \in {process_chunk(vad_streamer, chunk_data)} :
              /\ badSeen' = (badSeen \/ nbad > 0)
              /\ Len(log0) + Len(out.calls) <= MaxLog
              /\ vad_streamer' = out.s
              /\ op' = "process_chunk"
              /\ ret' = out.ret
              /\ reported' = <<>>
              /\ nbytes' = nbytes + Len(vs)
              /\ lastv' = IF Len(vs) = 0 THEN lastv ELSE vs[Len(vs)]
              /\ fresh' = ~out.ret.is_none
              /\ utt' = utt0 \o chunk_data
              /\ log' = log0 \o out.calls
              /\ callStart' = Len(log0)
              /\ raiseAt' = IF raise0 = -1 /\ out.raised
                            THEN Len(utt0) + Len(vs) ELSE raise0
              /\ payloads' = Record(out.ret, LastReset)
              /\ UNCHANGED <<forced, avars, pvars, config>>

ForceEot ==
    LET out == force_eot(vad_streamer) IN
    /\ ~forced
    /\ forced' = TRUE
    /\ vad_streamer' = out.s
    /\ op' = "force_eot"
    /\ ret' = out.ret
    /\ reported' = <<>>
    /\ fresh' = TRUE
    /\ utt' = IF fresh THEN <<>> ELSE utt
    /\ log' = IF fresh THEN <<>> ELSE log
    /\ callStart' = Len(log')
    /\ raiseAt' = IF fresh THEN -1 ELSE raiseAt
    /\ payloads' = Record(out.ret, LastReset)
    /\ UNCHANGED <<nbytes, lastv, badSeen, avars, pvars, config>>

GetState ==
    /\ Len(reported) < 1
    /\ reported' = Append(reported, get_state(vad_streamer))
    /\ op' = op
    /\ UNCHANGED <<vad_streamer, ret, nbytes, lastv, fresh, utt, log, callStart,
                   raiseAt, payloads, badSeen, forced, avars, pvars, config>>

Next == ProcessChunk \/ ForceEot \/ GetState

Spec == Init /\ [][Next]_<<vars, avars, pvars, config>>

(* --------------------------- stream_audio ------------------------------ *)
\* the history of the direct calls, which AdapterSpec leaves alone
direct == <<reported, fresh, utt, log, callStart, raiseAt, payloads, forced>>

\* the client sends a chunk of audio
ClientSend ==
    \E len \in 0..MaxChunk : \E fs \in [1..Begun(nbytes, len) -> Values] :
        LET vs == ChunkValues(nbytes, len, lastv, fs)
            nbad == Cardinality({i \in DOMAIN fs : fs[i] = "bad"})
        IN /\ client = "open"
           /\ nsent < MaxSends
           /\ Len(inbox) < MaxInbox
           /\ nbytes + len <= MaxBytes
           /\ nbad <= (IF badSeen THEN 0 ELSE 1)
           /\ badSeen' = (badSeen \/ nbad > 0)
           /\ nbytes' = nbytes + len
           /\ lastv' = IF len = 0 THEN lastv ELSE vs[len]
           /\ nsent' = nsent + 1
           /\ inbox' = Append(inbox, [kind |-> "bytes", seq |-> nsent + 1,
                                      data |-> Stamp(vs, nbytes)])
           /\ UNCHANGED <<vad_streamer, op, ret, direct, pvars, config, built, classified, failed, attempts, pc, client, data, transcript,
                          sent, processed, detected, eots>>

\* the client closes the connection (kind "disconnect") or sends a text
\* message where bytes are expected (kind "text"); either is its last message
ClientEnd ==
    \E kind \in {"disconnect", "text"} :
        /\ client = "open"
        /\ Len(inbox) < MaxInbox
        /\ client' = "closed"
        /\ inbox' = Append(inbox, [kind |-> kind, seq |-> 0, data |-> <<>>])
        /\ UNCHANGED <<vad_streamer, op, ret, nbytes, lastv, badSeen, direct, pvars, config, built, classified, failed, attempts, pc, nsent,
                       data, transcript, sent, processed, detected, eots>>

\* data = await websocket.receive_bytes(); complete_audio = process_chunk(data)
Receive ==
    /\ pc = "recv"
    /\ inbox # <<>>
    /\ receive_bytes(inbox).kind = "bytes"
    /\ \E out \in {process_chunk(vad_streamer, receive_bytes(inbox).data)} :
          /\ vad_streamer' = out.s
          /\ op' = "process_chunk"
          /\ ret' = out.ret
          /\ data' = receive_bytes(inbox).data
          /\ processed' = Append(processed, receive_bytes(inbox).seq)
          /\ detected' = detected + (IF out.ret.is_none THEN 0 ELSE 1)
          /\ pc' = after_chunk(out.ret, receive_bytes(inbox).data)
          /\ classified' = Len(out.calls)
          /\ failed' = (failed \/ out.raised)
    /\ inbox' = Tail(inbox)
    /\ sent' = <<>>
    /\ built' = <<>>
    /\ UNCHANGED <<nbytes, lastv, badSeen, direct, pvars, config, attempts, client, nsent,
                   transcript, eots>>

\* transcript = transcribe_utterance(complete_audio)
Transcribe ==
    \E hearing \in Hearings :
        /\ pc = "transcribe"
        /\ transcript' = transcribe_utterance(ret.data, hearing)
        /\ attempts' = attempts + 1
        /\ pc' = "send_eot"
        /\ UNCHANGED <<vad_streamer, op, ret, nbytes, lastv, badSeen, direct, pvars, config, built,
                       classified, failed, inbox, client, nsent, data, sent, processed,
                       detected, eots>>

\* step_functions_input = {...} when there is a transcript, await
\* websocket.send_text(json.dumps(eot_message)) in either branch, then
\* vad_streamer = RealTimeVADStreamer()
SendEot ==
    /\ pc = "send_eot"
    /\ sent' = sent \o eot_sends(transcript, ret, vad_streamer)
    /\ eots' = eots + Len(eot_sends(transcript, ret, vad_streamer))
    /\ vad_streamer' = NewStreamer
    /\ failed' = FALSE
    /\ built' = built \o step_functions_input(transcript, ret)
    /\ pc' = "recv"
    /\ UNCHANGED <<op, ret, nbytes, lastv, badSeen, direct, pvars, config, classified, attempts,
                   inbox, client, nsent, data, transcript, processed, detected>>

\* await websocket.send_text(json.dumps(status_message))
SendStatus ==
    /\ pc = "send_status"
    /\ sent' = Append(sent, status_message(vad_streamer))
    /\ pc' = "recv"
    /\ UNCHANGED <<vad_streamer, op, ret, nbytes, lastv, badSeen, direct, pvars, config, built, classified, failed, attempts, inbox, client,
                   nsent, data, transcript, processed, detected, eots>>

\* receive_bytes raises WebSocketDisconnect: the handler logs and returns
Disconnected ==
    /\ pc = "recv"
    /\ inbox # <<>>
    /\ receive_bytes(inbox).kind = "disconnect"
    /\ pc' = "done"
    /\ inbox' = Tail(inbox)
    /\ UNCHANGED <<vad_streamer, op, ret, nbytes, lastv, badSeen, direct, pvars, config, built, classified, failed, attempts, client, nsent,
                   data, transcript, sent, processed, detected, eots>>

\* receive_bytes raises another exception: the handler logs, closes the
\* websocket and returns
Failed ==
    /\ pc = "recv"
    /\ inbox # <<>>
    /\ receive_bytes(inbox).kind = "text"
    /\ pc' = "done"
    /\ inbox' = Tail(inbox)
    /\ UNCHANGED <<vad_streamer, op, ret, nbytes, lastv, badSeen, direct, pvars, config, built, classified, failed, attempts, client, nsent,
                   data, transcript, sent, processed, detected, eots>>

AdapterNext ==
    ClientSend \/ ClientEnd \/ Receive \/ Transcribe \/ SendEot \/ SendStatus
        \/ Disconnected \/ Failed

AdapterSpec == Init /\ [][AdapterNext]_<<vars, avars, pvars, config>>

(* --------------------------- two connections --------------------------- *)
\* the most audio one session of the pair is given
PairBytes == (EotThreshold + 1) * FrameBytes

\* the longest chunk one session of the pair is given
PairChunk == FrameBytes

\* process_chunk on session k
PairProcessChunk ==
    \E k \in Sessions : \E len \in 0..PairChunk :
    \E fs \in [1..Begun(fed[k].n, len) -> {"speech", "silence"}] :
        LET vs == ChunkValues(fed[k].n, len, fed[k].last, fs)
            chunk_data == Stamp(vs, fed[k].n)
        IN /\ fed[k].n + len <= PairBytes
           /\ fed' = [fed EXCEPT ![k] = [n |-> fed[k].n + len,
                                         last |-> IF len = 0 THEN fed[k].last ELSE vs[len]]]
           /\ \E out \in {process_chunk(pair[k], chunk_data)} :
                 /\ pair' = assign(pair, k, out.s)
                 /\ pret' = [pret EXCEPT ![k] = [op |-> "process_chunk", val |-> out.ret]]
           /\ \E out \in {process_chunk(solo[k], chunk_data)} :
                 /\ solo' = [solo EXCEPT ![k] = out.s]
                 /\ sret' = [sret EXCEPT ![k] = [op |-> "process_chunk", val |-> out.ret]]
           /\ repeat' = [repeat EXCEPT ![k] = "no"]
           /\ UNCHANGED <<config, vars, avars>>

\* force_eot on session k
PairForceEot ==
    \E k \in Sessions :
        /\ pair' = assign(pair, k, force_eot(pair[k]).s)
        /\ pret' = [pret EXCEPT ![k] = [op |-> "force_eot", val |-> force_eot(pair[k]).ret]]
        /\ solo' = [solo EXCEPT ![k] = force_eot(solo[k]).s]
        /\ sret' = [sret EXCEPT ![k] = [op |-> "force_eot", val |-> force_eot(solo[k]).ret]]
        /\ repeat' = [repeat EXCEPT ![k] =
                          IF pret[k].op # "force_eot" THEN "no"
                          ELSE IF pret[k].val.is_none THEN "none" ELSE "payload"]
        /\ UNCHANGED <<config, vars, avars, fed>>

\* get_state on session k
PairGetState ==
    \E k \in Sessions :
        /\ pret' = [pret EXCEPT ![k] = [op |-> "get_state", val |-> get_state(pair[k])]]
        /\ sret' = [sret EXCEPT ![k] = [op |-> "get_state", val |-> get_state(solo[k])]]
        /\ repeat' = [repeat EXCEPT ![k] = "no"]
        /\ UNCHANGED <<config, vars, avars, pair, solo, fed>>

PairNext == PairProcessChunk \/ PairForceEot \/ PairGetState

PairSpec == Init /\ [][PairNext]_<<vars, avars, pvars, config>>

(* ---------------------------- construction ----------------------------- *)
\* RealTimeVADStreamer(sample_rate=..., frame_duration=...)
Construct ==
    \E sample_rate \in SampleRates : \E frame_duration \in 1..MaxDuration :
        /\ config' = construct(sample_rate, frame_duration)
        /\ UNCHANGED <<vars, avars, pvars>>

ConfigNext == Construct

ConfigSpec == Init /\ [][ConfigNext]_<<vars, avars, pvars, config>>

(* ------------------------------- claims -------------------------------- *)
\* the stream b cut into fixed-size windows, the tail shorter than a frame left out
Slices(b) ==
    [i \in 1..(Len(b) \div FrameBytes) |-> SubSeq(b, (i - 1) * FrameBytes + 1, i * FrameBytes)]

\* what the classifier decides on each window of b
Classes(b) == [i \in 1..Len(Slices(b)) |-> is_speech(Slices(b)[i])]

\* the classifier invocations of the last process_chunk call
LastCall == SubSeq(log, callStart + 1, Len(log))

\* the frames handed to the classifier since the reset before the last call
Handed == [i \in 1..Len(log) |-> log[i].frame]

\* what get_state reports of a session that has just been reset
IdleState ==
    [buffer_size |-> 0, silence_frames |-> 0, speech_frames |-> 0,
     in_speech |-> FALSE, eot_threshold |-> NewStreamer.eot_frames_threshold]

\* the audio since the last reset begins with one speech frame followed by
\* silence frames only, as far as the threshold reaches
SpeechThenSilence ==
    LET F == Classes(utt) IN
    /\ Len(F) >= 1
    /\ F[1] = "speech"
    /\ \A i \in 2..Len(F) : i <= vad_streamer.eot_frames_threshold + 1 => F[i] = "silence"

\* C1: threshold exactness.  From a freshly reset session, however the bytes
\* are cut into chunks, one speech frame followed by fewer than T silence
\* frames makes no process_chunk call return a payload, and the call that
\* completes the T-th silence frame returns one.
C1_ThresholdExactness ==
    (op = "process_chunk" /\ SpeechThenSilence)
        => (Truthy(ret) <=> Len(Classes(utt)) >= vad_streamer.eot_frames_threshold + 1)

\* C1 witness: the T-th silence frame, completed in a later call than the
\* speech frame, fires the End-of-Turn
C1_Witness ==
    /\ op = "process_chunk" /\ SpeechThenSilence /\ Truthy(ret)
    /\ Len(Classes(utt)) = EotThreshold + 1
    /\ callStart > 0
    /\ Len(LastCall) = 1

\* C2: the payload process_chunk returns on End-of-Turn is the ordered
\* concatenation of every byte passed to process_chunk since the last reset,
\* however those bytes were split into chunks.
C2_PayloadIsWholeUtterance ==
    (op = "process_chunk" /\ ~ret.is_none) => ret.data = utt

\* C3: immediately after a process_chunk call that returns an End-of-Turn
\* payload, get_state reports buffer_size 0, both counters 0, in_speech false
\* and the threshold the session was created with.
C3_ResetAfterEot ==
    (op = "process_chunk" /\ ~ret.is_none)
        => /\ get_state(vad_streamer) = IdleState
           /\ \A i \in 1..Len(reported) : reported[i] = IdleState

\* C3 witness: get_state has been called right after an End-of-Turn that
\* followed counted speech and silence frames
C3_Witness ==
    /\ op = "process_chunk" /\ ~ret.is_none
    /\ Len(reported) = 1
    /\ reported[1].speech_frames = 0
    /\ \E i \in 1..Len(log) : log[i].res = "speech"

\* C4: frame integrity.  For chunks that add up to N complete frames (and
\* fire no End-of-Turn), the frames handed to the classifier across the
\* process_chunk calls are exactly the N fixed-size windows of the
\* concatenated stream, in order, each once.
C4_FrameIntegrity ==
    (op = "process_chunk" /\ ret.is_none /\ Len(utt) % FrameBytes = 0)
        => Handed = Slices(utt)

\* every frame classified since the last reset was classified as silence
AllSilence == \A i \in 1..Len(log) : log[i].res = "silence"

\* C5: no End-of-Turn without speech.  If every frame since the last reset is
\* classified as silence, no process_chunk call returns a payload, in_speech
\* stays false, and a following force_eot returns no payload.
C5_NoEotWithoutSpeech ==
    AllSilence
        => /\ op = "process_chunk" => (ret.is_none /\ ~vad_streamer.in_speech)
           /\ op = "force_eot" => ret.is_none

\* C5 witness: force_eot after more silence frames than the threshold, with
\* bytes still buffered
C5_Witness ==
    /\ op = "force_eot" /\ AllSilence /\ ret.is_none
    /\ Len(log) > EotThreshold
    /\ Len(utt) % FrameBytes # 0

\* C6: force_eot called with in_speech true and a non-empty buffer returns
\* every byte received since the last reset and leaves the session idle.
C6_ForceEotReturnsUtterance ==
    (op = "force_eot" /\ ~ret.is_none)
        => (ret.data = utt /\ get_state(vad_streamer) = IdleState)

\* C7: at most one utterance per process_chunk call.  A call that returns a
\* payload stopped classifying at the first frame whose End-of-Turn test
\* held, the payload holds that frame, and the session is idle afterwards,
\* also when the chunk held further complete frames.
C7_OneUtterancePerCall ==
    (op = "process_chunk" /\ ~ret.is_none)
        => /\ Len(LastCall) >= 1
           /\ LastCall[Len(LastCall)].eot
           /\ \A i \in 1..(Len(LastCall) - 1) : ~LastCall[i].eot
           /\ Ids(LastCall[Len(LastCall)].frame) \subseteq Ids(ret.data)
           /\ get_state(vad_streamer) = IdleState

\* C7 witness: the End-of-Turn fired with at least one complete frame of the
\* same chunk behind the triggering frame
C7_Witness ==
    /\ op = "process_chunk" /\ ~ret.is_none
    /\ Len(ret.data) \div FrameBytes > Len(LastCall)

\* C8: consecutive utterances never bleed into each other.  No byte is in
\* two returned payloads, and a payload holds no byte received before the
\* End-of-Turn or reset that preceded it.
C8_NoBleed ==
    /\ \A i, j \in 1..Len(payloads) :
          i < j => Ids(payloads[i].data) \cap Ids(payloads[j].data) = {}
    /\ \A i \in 1..Len(payloads) :
          \A n \in Ids(payloads[i].data) : n > payloads[i].since

\* C8 witness: two payloads have been returned, the second after a reset
\* that left received bytes behind
C8_Witness ==
    /\ Len(payloads) = 2
    /\ payloads[2].since > 0

\* C9: get_state is read-only.  A get_state call leaves the buffer, both
\* counters, in_speech and the threshold as they were and reports exactly
\* their values.
C9_GetStateReadOnly ==
    [][Len(reported') > Len(reported)
         => /\ vad_streamer' = vad_streamer
            /\ reported'[Len(reported')] =
                 [buffer_size |-> Len(vad_streamer.audio_buffer),
                  silence_frames |-> vad_streamer.silence_frames,
                  speech_frames |-> vad_streamer.speech_frames,
                  in_speech |-> vad_streamer.in_speech,
                  eot_threshold |-> vad_streamer.eot_frames_threshold]]_vars

\* C9 witness: get_state has reported a session in mid-utterance, with a
\* silence run that differs from the threshold and bytes in the buffer
C9_Witness ==
    /\ Len(reported) = 1
    /\ vad_streamer.in_speech
    /\ vad_streamer.silence_frames = 1
    /\ Len(vad_streamer.audio_buffer) > 0
    /\ reported[1].silence_frames = 1

\* the audio received after the first call in which the classifier raised
AfterRaise == SubSeq(utt, raiseAt + 1, Len(utt))

\* C10: classifier failure is recoverable.  After a call in which the
\* classifier raised on a frame (a whole number of frames received by then),
\* later audio of one speech frame followed by T silence frames makes the
\* process_chunk call that completes it return an End-of-Turn payload.
C10_RecoversAfterRaise ==
    LET F == Classes(AfterRaise) IN
    (/\ op = "process_chunk"
     /\ raiseAt >= 0
     /\ raiseAt % FrameBytes = 0
     /\ Len(F) = vad_streamer.eot_frames_threshold + 1
     /\ F[1] = "speech"
     /\ \A i \in 2..Len(F) : F[i] = "silence")
        => Truthy(ret)

\* the handler has finished with the chunk it received last
HandledChunk == pc \in {"recv", "done"} /\ Len(processed) >= 1

\* C11: once the connection is closed the handler has invoked force_eot on
\* the session, as its last call on it.
C11_ForceEotOnClose ==
    pc = "done" => (forced /\ op = "force_eot")

\* C12: when the handler has finished with a chunk it has sent exactly one
\* message if the chunk was not empty, an eot message if process_chunk
\* returned a payload and otherwise a status message carrying get_state, and
\* it has sent no status message for an empty chunk.
C12_OneMessagePerChunk ==
    HandledChunk
        => /\ Len(sent) <= 1
           /\ Len(data) > 0 => Len(sent) = 1
           /\ \A i \in 1..Len(sent) :
                 IF Truthy(ret) THEN sent[i].type = "eot"
                 ELSE /\ sent[i].type = "status"
                      /\ sent[i].vad_state = get_state(vad_streamer)
                      /\ Len(data) > 0

\* C12 witness: an empty chunk received in mid-utterance has been handled
\* and nothing was sent for it
C12_Witness ==
    /\ HandledChunk
    /\ Len(processed) >= 2
    /\ Len(data) = 0
    /\ sent = <<>>
    /\ vad_streamer.in_speech

\* C13: the eot messages sent are as many as the payloads process_chunk
\* returned, one for each as soon as its transcription is over; the message
\* carries the transcript, null when there is none, and the session is idle
\* afterwards in either case.
C13_OneEotPerUtterance ==
    /\ eots <= detected
    /\ detected <= eots + 1
    /\ pc \in {"recv", "done"} => eots = detected
    /\ (HandledChunk /\ ~ret.is_none)
          => /\ Len(sent) = 1
             /\ sent[1].type = "eot"
             /\ sent[1].transcript = transcript
             /\ sent[1].step_functions_triggered = ~transcript.is_none
             /\ sent[1].vad_state = IdleState
             /\ get_state(vad_streamer) = IdleState

\* C13 witness: an utterance whose transcription returned nothing has been
\* answered
C13_Witness ==
    /\ HandledChunk
    /\ ~ret.is_none
    /\ transcript.is_none
    /\ detected = 1
    /\ eots = 1

\* C14: while a transcription is in flight and a chunk is waiting, the
\* handler can receive it and pass it to process_chunk.
C14_IngestionNotBlocked ==
    (pc = "transcribe" /\ inbox # <<>> /\ receive_bytes(inbox).kind = "bytes")
        => ENABLED Receive

\* C15: the chunks passed to process_chunk are the client's first, second,
\* third, ... in that order, and a chunk is passed to process_chunk only
\* when the handler has finished with the one before and is waiting to
\* receive.
C15_InOrderNoOverlap ==
    /\ [](\A i \in 1..Len(processed) : processed[i] = i)
    /\ [][Len(processed') > Len(processed) => pc = "recv"]_<<vars, avars, pvars, config>>

\* C15 witness: the second chunk has been processed while the third was
\* already waiting
C15_Witness ==
    /\ processed = <<1, 2>>
    /\ pc # "recv"
    /\ Len(inbox) = 1
    /\ inbox[1].kind = "bytes"

\* C16: under any interleaving of process_chunk, get_state and force_eot on
\* two sessions, each session and the value its last call returned are what
\* they are when the session is driven alone by its own calls.
C16_SessionsIndependent ==
    /\ pair = solo
    /\ pret = sret

\* C16 witness: one session has returned an End-of-Turn payload while the
\* other is in mid-utterance with audio left in its buffer
C16_Witness ==
    \E k \in Sessions : \E j \in Sessions \ {k} :
        /\ pret[k].op = "process_chunk"
        /\ Truthy(pret[k].val)
        /\ pair[j].in_speech
        /\ Len(pair[j].audio_buffer) > 0

\* the End-of-Turn condition on the turn state a history entry e recorded
Fired(e) ==
    e.res # "raise" /\ e.in_speech /\ e.silence_frames >= vad_streamer.eot_frames_threshold

\* C17: the End-of-Turn fires at a frame if and only if, after that frame's
\* counter updates, in_speech is true and silence_frames >= the threshold: a
\* call returns a payload exactly when its last classified frame met the
\* condition, no earlier frame of the call did, and so at every call
\* boundary in_speech implies silence_frames < eot_threshold.
C17_EotIffCondition ==
    /\ vad_streamer.in_speech
          => vad_streamer.silence_frames < vad_streamer.eot_frames_threshold
    /\ op = "process_chunk"
          => /\ ~ret.is_none <=> (Len(LastCall) >= 1 /\ Fired(LastCall[Len(LastCall)]))
             /\ \A i \in 1..(Len(LastCall) - 1) : ~Fired(LastCall[i])

\* C17 witness: a call boundary in mid-utterance one silence frame short of
\* the threshold, after a frame that was counted with in_speech still false
C17_Witness ==
    /\ op = "process_chunk" /\ ret.is_none
    /\ vad_streamer.in_speech
    /\ vad_streamer.silence_frames = EotThreshold - 1
    /\ Len(log) >= 3
    /\ ~log[1].in_speech

\* C18: speech_frames is a consecutive run length: a frame classified as
\* silence leaves it 0, so speech_frames and silence_frames are never both
\* non-zero.
C18_SpeechRunResets ==
    ~(vad_streamer.speech_frames > 0 /\ vad_streamer.silence_frames > 0)

\* the place, among the frames of the stream since the last reset, of the
\* frame at which the last call fired the End-of-Turn
TriggerIndex ==
    CHOOSE k \in 1..Len(Slices(utt)) : Slices(utt)[k] = LastCall[Len(LastCall)].frame

\* C19: a frame classified as speech leaves silence_frames 0, and an
\* End-of-Turn needs T consecutive silence frames after the most recent
\* speech frame: the triggering frame ends a run of T silence frames of the
\* stream.
C19_CountdownRestarts ==
    /\ \A i \in 1..Len(log) : log[i].res = "speech" => log[i].silence_frames = 0
    /\ (op = "process_chunk" /\ ~ret.is_none)
          => \A j \in (TriggerIndex - vad_streamer.eot_frames_threshold + 1)..TriggerIndex :
                j >= 1 /\ Classes(utt)[j] = "silence"

\* C20: in_speech becomes true at the first speech frame after a reset and
\* stays true through every later silence or speech frame: while no
\* End-of-Turn or force_eot has reset the session, in_speech holds exactly
\* when a frame since the reset was classified as speech.
C20_InSpeechLatches ==
    (op = "process_chunk" /\ ret.is_none)
        => (vad_streamer.in_speech <=> \E i \in 1..Len(log) : log[i].res = "speech")

\* C20 witness: in_speech is still true after silence, speech, silence,
\* speech in that order, the frames after the first speech frame counted in
\* later calls
C20_Witness ==
    /\ op = "process_chunk" /\ ret.is_none
    /\ vad_streamer.in_speech
    /\ Len(log) = 4
    /\ log[1].res = "silence" /\ log[2].res = "speech"
    /\ log[3].res = "silence" /\ log[4].res = "speech"
    /\ callStart >= 2

\* the bytes of the stream since the last reset that follow its last
\* complete frame
UnframedTail == DropFirst(utt, (Len(utt) \div FrameBytes) * FrameBytes)

\* C21: every slice handed to the classifier has exactly the frame byte
\* size, and after every process_chunk return the buffer is shorter than one
\* frame; when no payload was returned it holds exactly the bytes of the
\* stream that follow the last complete frame.
C21_ExactFramesOnly ==
    /\ \A i \in 1..Len(log) : Len(log[i].frame) = FrameBytes
    /\ op = "process_chunk"
          => /\ Len(vad_streamer.audio_buffer) < FrameBytes
             /\ ret.is_none => vad_streamer.audio_buffer = UnframedTail

\* the place in the stream of the last byte of the frame classified last
TriggerEnd == LastCall[Len(LastCall)].frame[FrameBytes].n

\* C22: when process_chunk returns a payload, the bytes of the chunk that
\* follow the triggering frame are not in the payload: the payload ends
\* with the triggering frame.
C22_TailAfterTriggerDiscarded ==
    (op = "process_chunk" /\ ~ret.is_none)
        => \A i \in 1..Len(ret.data) : ret.data[i].n <= TriggerEnd

\* C23: a process_chunk call that returns no payload leaves the buffer at
\* least as long as it found it.
C23_BufferGrows ==
    [][(op' = "process_chunk" /\ reported' = <<>> /\ ret'.is_none)
          => Len(vad_streamer'.audio_buffer) >= Len(vad_streamer.audio_buffer)
      ]_<<vars, avars, pvars, config>>

\* the first frame since the last reset that was classified as speech
FirstSpeech ==
    log[CHOOSE i \in 1..Len(log) :
            log[i].res = "speech" /\ \A j \in 1..(i - 1) : log[j].res # "speech"].frame

\* C24: a payload returned by process_chunk holds the speech frame that set
\* in_speech and is at least T + 1 frames long.
C24_PayloadSpansUtterance ==
    (op = "process_chunk" /\ ~ret.is_none)
        => /\ Ids(FirstSpeech) \subseteq Ids(ret.data)
           /\ Len(ret.data) >= (vad_streamer.eot_frames_threshold + 1) * FrameBytes

\* C26: a payload process_chunk returns is at least one frame long, so the
\* handler's truthiness test sends it to the transcription exactly when the
\* End-of-Turn test held at a frame of the call.
C26_EotIsTruthy ==
    op = "process_chunk"
        => /\ ~ret.is_none => Len(ret.data) >= FrameBytes
           /\ after_chunk(ret, <<>>) = "transcribe"
                 <=> \E i \in 1..Len(LastCall) : LastCall[i].eot

\* C26 witness: an End-of-Turn whose payload is a single frame
C26_Witness ==
    /\ op = "process_chunk"
    /\ ~ret.is_none
    /\ Len(ret.data) = FrameBytes
    /\ LastCall[Len(LastCall)].eot

\* C29: no frame is classified and counted twice: the frames whose
\* classification was applied to the counters since the last reset are
\* pairwise different frames of the stream.
C29_CountedOnce ==
    \A i, j \in 1..Len(log) :
        (i < j /\ log[i].res # "raise" /\ log[j].res # "raise")
            => Ids(log[i].frame) # Ids(log[j].frame)

\* the stream has not been cut by a reset yet, or only by the End-of-Turn the
\* last call returned
FirstUtterance ==
    /\ ~forced
    /\ Len(payloads) = (IF ret.is_none THEN 0 ELSE 1)

\* the same stream delivered to a new session as one chunk
WholeBuffer == process_chunk(NewStreamer, utt)

\* the frames of the classifier invocations `calls` whose classification
\* was applied to the counters, in order
Counted(calls) ==
    LET applied(e) == e.res # "raise"
        kept == SelectSeq(calls, applied)
    IN [i \in 1..Len(kept) |-> kept[i].frame]

\* C30: a session given the stream in any chunks has classified the frames
\* a session given the same stream as one chunk classifies, and has fired
\* its first End-of-Turn exactly when that session fires it, at the same
\* frame.
C30_ChunkingInvariance ==
    (op = "process_chunk" /\ FirstUtterance)
        => /\ ret.is_none <=> WholeBuffer.ret.is_none
           /\ Counted(log) = Counted(WholeBuffer.calls)

\* C25: a process_chunk call with an empty chunk on a session whose
\* classifier has not raised classifies no frame, returns no payload and
\* leaves the buffer, both counters and in_speech as they were.
C25_EmptyChunkNoOp ==
    [][(Len(processed') > Len(processed) /\ Len(data') = 0 /\ ~failed)
          => /\ classified' = 0
             /\ ret'.is_none
             /\ vad_streamer' = vad_streamer
      ]_<<vars, avars, pvars, config>>

\* C25 witness: an empty chunk has been processed in mid-utterance with
\* bytes waiting in the buffer
C25_Witness ==
    /\ pc = "recv"
    /\ Len(processed) >= 2
    /\ Len(data) = 0
    /\ classified = 0
    /\ ~failed
    /\ vad_streamer.in_speech
    /\ Len(vad_streamer.audio_buffer) > 0

\* C27: the handler calls transcribe_utterance once for each payload
\* process_chunk returned to it, never again for the same payload, and the
\* result is None or a text that is not empty.
C27_SingleTranscription ==
    /\ attempts = (IF pc = "transcribe" THEN detected - 1 ELSE detected)
    /\ transcript.is_none \/ transcript.text # ""
    /\ pc = "send_eot" => ~ret.is_none

\* C27 witness: the one transcription of an utterance has returned a text
\* and the eot message is about to be sent
C27_Witness ==
    /\ pc = "send_eot"
    /\ detected = 1
    /\ attempts = 1
    /\ ~transcript.is_none

\* n / d rounded to the nearest integer, halves upwards
Round(n, d) == (2 * n + d) \div (2 * d)

\* the frame durations, in ms, the classifier supports
SupportedDurations == {10, 20, 30}

\* C28: frame_size is sample_rate * frame_duration / 1000 samples, 480
\* samples or 960 bytes at 16000 Hz and 30 ms, and for the frame durations
\* 10, 20 and 30 ms eot_frames_threshold is 1.5 * 1000 / frame_duration
\* rounded: 150, 75 and 50 frames.
C28_DerivedConfiguration ==
    /\ config.frame_duration \in SupportedDurations
          => /\ config.frame_size * 1000 = config.sample_rate * config.frame_duration
             /\ config.eot_frames_threshold = Round(1500, config.frame_duration)
             /\ config.eot_frames_threshold
                    = (CASE config.frame_duration = 10 -> 150
                         [] config.frame_duration = 20 -> 75
                         [] config.frame_duration = 30 -> 50)
    /\ (config.sample_rate = 16000 /\ config.frame_duration = 30)
          => (config.frame_size = 480 /\ config.frame_size * 2 = 960)

\* C28 witness: a session constructed for 10 ms frames at 48000 Hz
C28_Witness ==
    /\ config.sample_rate = 48000
    /\ config.frame_duration = 10
    /\ config.frame_size = 480
    /\ config.eot_frames_threshold = 150

\* C31: after any force_eot call, whether it returned a payload or not, the
\* session is idle (buffer_size and both counters 0, in_speech false); a
\* force_eot that follows another at once has returned no payload, and one
\* more would return none and leave the session as it is.
C31_ForceEotIdempotent ==
    \A k \in Sessions :
        pret[k].op = "force_eot"
            => /\ get_state(pair[k]) = IdleState
               /\ repeat[k] # "no" => pret[k].val.is_none
               /\ force_eot(pair[k]) = [s |-> pair[k], ret |-> None]

\* C31 witness: a force_eot that returned the buffered speech has been
\* followed at once by a second force_eot on the same session
C31_Witness ==
    \E k \in Sessions :
        /\ pret[k].op = "force_eot"
        /\ repeat[k] = "payload"
        /\ pret[k].val.is_none
        /\ fed[k].n > 0

\* C32: in every eot message the handler sends, step_functions_triggered is
\* true exactly when transcript is not null and audio_size is the length of
\* the payload process_chunk returned; a workflow input is built only when
\* there is a transcript, and then from that transcript and that payload.
C32_EotMessageConsistent ==
    /\ \A i \in 1..Len(sent) :
          sent[i].type = "eot"
              => /\ sent[i].step_functions_triggered <=> ~sent[i].transcript.is_none
                 /\ sent[i].audio_size = Len(ret.data)
                 /\ Len(built) = (IF sent[i].transcript.is_none THEN 0 ELSE 1)
    /\ \A i \in 1..Len(built) :
          /\ ~transcript.is_none
          /\ built[i].utterance = transcript.text
          /\ built[i].audio_metadata.size_bytes = Len(ret.data)
          /\ Len(sent) = 1 /\ sent[1].type = "eot"

\* C32 witness: an eot message with a transcript has been sent for a
\* payload longer than one frame and the workflow input was built
C32_Witness ==
    /\ Len(sent) = 1
    /\ sent[1].type = "eot"
    /\ sent[1].step_functions_triggered
    /\ sent[1].audio_size > FrameBytes
    /\ Len(built) = 1

====
